---- MODULE Spec2Model ----
(***************************************************************************)
(* Verification model of py4cast's dataset core:                           *)
(*   - the validity cache of a dataset split (DatasetABC / TitanDataset),  *)
(*   - Sample construction and Sample.load,                                *)
(*   - Item and its in-place axis operations,                              *)
(*   - collate_fn and ItemBatch, Period, the DummyAccessor's data file,    *)
(*   - the dataset registry and get_datasets, Sample.is_valid,             *)
(*   - TitanAccessor.get_param_tensor and DatasetABC.dataset_info.         *)
(* Times are whole hours counted from the first day of the modelled month. *)
(* A Sample of the sample list is identified by its reference date: the    *)
(* dataset code builds it as Sample(date, settings, params, stats, grid).  *)
(***************************************************************************)
EXTENDS Integers, Sequences, FiniteSets, TLC

\* ------------------------------------------------------------------ bounds
\* last calendar day (0-based) a period may start or end on
MaxDay == 1
\* number of (date, parameter) cells of the archive that are not present
MaxFaults == 1

\* largest size of an axis of a tensor handed to Item
MaxSize == 2
\* largest number of axes a tensor grows to under unsqueeze_
MaxRank == 4

\* largest num_input_steps and largest num_pred_steps of a sample
MaxInputSteps == 2
MaxPredSteps == 2
\* largest length of the terms and validity_times lists handed to Sample
MaxLen == 4
\* largest number of parameters of a sample
MaxParams == 2
\* most Items in the list handed to collate_fn
MaxBatch == 2
\* largest term_start and term_end of a period
MaxTerm == 3
\* largest step_duration of a period
MaxStep == 2

\* --------------------------------------------------------------- constants
\* np.timedelta64(1, "D"), in hours
HoursPerDay == 24
\* the year and month of the modelled dates (DummyAccessor's periods)
BaseYear == 2023
BaseMonth == 1
\* the line terminator written after each date
NL == 10

\* the grid of the dummy dataset: full_size = (64, 64)
LatSize == 64
LonSize == 64

\* hours of the day at which a period may start
HourChoices == {0, 6}
\* the parameter list of the dataset (indices into self.params)
Params == 1..2

Range(s) == {s[i] : i \in DOMAIN s}

\* ------------------------------------------------------------------ Period
Times == {HoursPerDay * d + h : d \in 0..MaxDay, h \in HourChoices}

\* the periods of the model: start may carry an hour of the day, end is a
\* day at 00h, and start <= end
Periods ==
    {p \in [start : Times, end : {HoursPerDay * e : e \in 0..MaxDay}] :
        p.start <= p.end}

\* every reference date a period of the model can list
DateUniverse == Times

\* length of np.arange(lo, hi, step): ceil((hi - lo) / step), never negative
ArangeLen(lo, hi, step) ==
    IF hi <= lo THEN 0 ELSE (hi - lo + step - 1) \div step

\* Period.date_list: np.arange(start, end + 1 day, 1 day).tolist()
date_list(p) ==
    [k \in 1..ArangeLen(p.start, p.end + HoursPerDay, HoursPerDay) |->
        p.start + (k - 1) * HoursPerDay]

\* ------------------------------------------------- date <-> cache text
\* date.strftime('%Y-%m-%d_%Hh%M'): the fields year, month, day, hour, minute
strftime(t) ==
    <<BaseYear, BaseMonth, 1 + (t \div HoursPerDay), t % HoursPerDay, 0>>

\* the line written for a date: the formatted date followed by "\n"
CacheLine(t) == Append(strftime(t), NL)

\* dt.datetime.strptime(ds, '%Y-%m-%d_%Hh%M') that forgets the hour field
strptime_day_only(ds) == (ds[3] - 1) * HoursPerDay

\* dt.datetime.strptime(ds, '%Y-%m-%d_%Hh%M'), back to hours
strptime(ds) == (ds[3] - 1) * HoursPerDay + ds[4]

\* line[:-1] for line in f.readlines()
StripLast(line) == SubSeq(line, 1, Len(line) - 1)

VARIABLES
    disk,         \* archive: [date, param] -> "present" | "absent" | "error"
    period,       \* self.period of the dataset object
    file_exists,  \* self.valid_samples_file.exists()
    file,         \* the lines of self.valid_samples_file on disk
    wpc,          \* write_list_valid_samples: "idle" | "writing" | "done" | "raised"
    wPeriod,      \* the period of the dataset that runs write_list_valid_samples
    wi,           \* index in date_list of the next date the writer probes
    wbuf,         \* lines written to f and not yet flushed to the file
    sample_list,  \* the reference dates of the samples, once built
    via,          \* sample_list: "none" (not built) | "cache" | "fresh" | "raised"
    probes        \* number of is_valid calls per date made by the last build

cacheVars == <<disk, period, file_exists, file, wpc, wPeriod, wi, wbuf, sample_list, via, probes>>

VARIABLES
    item,       \* the Item (or ItemBatch) object: inputs, outputs, forcing
    item_made,  \* whether the object exists
    item_err    \* "none", or the exception the last Item operation raised

itemVars == <<item, item_made, item_err>>

VARIABLES
    sample,       \* the Sample object
    sample_made,  \* whether the object exists
    sample_err,   \* "none", or the exception Sample's construction raised
    load_state,   \* the last load call: "none" | "returned" | "raised"
    load_err,     \* "none", or the exception the last load call raised
    load_via,     \* the last load call was made by "load" or by "getitem"
    loaded,       \* the Item the last load call returned
    fetch_calls,  \* the get_param_tensor calls of the last load call, in order
    fetch_fails,  \* the parameters whose fetch fails during the last load call
    splits,       \* the two slices the last load call made of each input_output array
    reloaded      \* whether load was called more than once on the sample

sampleVars == <<sample, sample_made, sample_err, load_state, load_err, load_via,
                loaded, fetch_calls, fetch_fails, splits, reloaded>>

VARIABLES
    items,   \* the list of Items handed to collate_fn
    brows,   \* per field of the batch, the tensors stacked along batch, in order
    bcache   \* what the cached properties of the ItemBatch have stored

batchVars == <<items, brows, bcache>>

VARIABLES
    dfile,   \* dummy_data.npy: whether it exists, its length, who saved it
    dterms,  \* per loading process, len(timestamps.terms) of its request
    dpc,     \* per loading process, its position in load_data_from_disk
    dgot     \* per loading process, the array np.load returned

dummyVars == <<dfile, dterms, dpc, dgot>>

VARIABLES
    pargs,     \* the fields of the Period object
    pdates,    \* the last value read from Period.date_list
    pterms,    \* the last value read from Period.terms_list
    pread      \* which of the two properties have been read

periodVars == <<pargs, pdates, pterms, pread>>

restVars == <<batchVars, dummyVars, periodVars>>

VARIABLES
    registry,  \* the dataset registry of py4cast.datasets after its imports
    req,       \* the last get_datasets call: name and config_file
    got        \* what that call did: the exception, or what it resolved

regVars == <<registry, req, got>>

VARIABLES
    valid_state,   \* the last is_valid call of the sample: "none" | "True" | "False" | "raise"
    valid_probes,  \* the parameters that call handed to exists, in order
    valid_exists   \* what exists answers for each parameter during that call

validVars == <<valid_state, valid_probes, valid_exists>>

VARIABLES
    fargs,  \* one fetch: settings.standardize, the statistics and the raw rows
    fres    \* what the last get_param_tensor call did: exception or values

fetchVars == <<fargs, fres>>

lateVars == <<regVars, validVars, fetchVars>>

vars == <<cacheVars, itemVars, sampleVars, restVars, lateVars>>

\* ------------------------------------------------------------ Sample.is_valid
\* accessor exists(dataset_name, param, timestamps, file_format) for the sample
\* of reference date d: "present" is True, "absent" is False, "error" raises
exists(d, p) == disk[<<d, p>>]

\* Sample.is_valid from parameter i on: "True", "False" or "raise"
RECURSIVE is_valid_from(_, _)
is_valid_from(d, i) ==
    IF i \notin Params THEN "True"
    ELSE IF exists(d, i) = "error" THEN "raise"
    ELSE IF exists(d, i) = "absent" THEN "False"
    ELSE is_valid_from(d, i + 1)

is_valid(d) == is_valid_from(d, 1)

\* every required parameter exists at every required timestamp of date d
AllPresent(d) == \A p \in Params : disk[<<d, p>>] = "present"

NoProbes == [d \in DateUniverse |-> 0]

\* the archives of the model: at most MaxFaults cells are not present
Disks ==
    {dk \in [DateUniverse \X Params -> {"present", "absent", "error"}] :
        Cardinality({c \in DateUniverse \X Params : dk[c] # "present"}) <= MaxFaults}

CacheInit ==
    /\ disk \in Disks
    /\ period \in Periods
    /\ file_exists = FALSE
    /\ file = <<>>
    /\ wpc = "idle"
    /\ wPeriod = period
    /\ wi = 0
    /\ wbuf = <<>>
    /\ sample_list = <<>>
    /\ via = "none"
    /\ probes = NoProbes

\* ------------------------------------------------------ DatasetABC.__init__
\* A dataset object is constructed for period p of the split; its sample_list
\* (a cached_property) is not computed yet. The cache file name depends on the
\* split name and the step counts only, so every period shares the file.
NewDataset(p) ==
    /\ period' = p
    /\ sample_list' = <<>>
    /\ via' = "none"
    /\ probes' = NoProbes
    /\ UNCHANGED <<disk, file_exists, file, wpc, wPeriod, wi, wbuf, itemVars, sampleVars, restVars, lateVars>>

\* --------------------------------------- DatasetABC.write_list_valid_samples
\* open(self.valid_samples_file, "a"): keeps the earlier contents
WriteOpen_append ==
    /\ wpc # "writing"
    /\ wpc' = "writing"
    /\ wPeriod' = period
    /\ wi' = 1
    /\ wbuf' = <<>>
    /\ file_exists' = TRUE
    /\ file' = file
    /\ UNCHANGED <<disk, period, sample_list, via, probes, itemVars, sampleVars, restVars, lateVars>>

\* open(self.valid_samples_file, "w"): creates the file or truncates it
WriteOpen ==
    /\ wpc # "writing"
    /\ wpc' = "writing"
    /\ wPeriod' = period
    /\ wi' = 1
    /\ wbuf' = <<>>
    /\ file_exists' = TRUE
    /\ file' = <<>>
    /\ UNCHANGED <<disk, period, sample_list, via, probes, itemVars, sampleVars, restVars, lateVars>>

\* one iteration of the loop over self.period.date_list; an exception raised
\* by is_valid leaves the with block, which closes (and flushes) the file
WriteStep ==
    /\ wpc = "writing"
    /\ wi <= Len(date_list(wPeriod))
    /\ LET d == date_list(wPeriod)[wi]
           r == is_valid(d)
       IN  \/ /\ r = "True"
              /\ wbuf' = Append(wbuf, CacheLine(d))
              /\ wi' = wi + 1
              /\ UNCHANGED <<wpc, file, itemVars, sampleVars, restVars, lateVars>>
           \/ /\ r = "False"
              /\ wi' = wi + 1
              /\ UNCHANGED <<wpc, file, wbuf, itemVars, sampleVars, restVars, lateVars>>
           \/ /\ r = "raise"
              /\ wpc' = "raised"
              /\ file' = file \o wbuf
              /\ wbuf' = <<>>
              /\ wi' = 0
    /\ UNCHANGED <<disk, period, file_exists, wPeriod, sample_list, via, probes, itemVars, sampleVars, restVars, lateVars>>

\* the buffered writer flushes what it holds while the loop is still running
WriteFlush ==
    /\ wpc = "writing"
    /\ wbuf # <<>>
    /\ file' = file \o wbuf
    /\ wbuf' = <<>>
    /\ UNCHANGED <<disk, period, file_exists, wpc, wPeriod, wi, sample_list, via, probes, itemVars, sampleVars, restVars, lateVars>>

\* the loop is over: leaving the with block flushes and closes the file
WriteClose ==
    /\ wpc = "writing"
    /\ wi > Len(date_list(wPeriod))
    /\ wpc' = "done"
    /\ file' = file \o wbuf
    /\ wbuf' = <<>>
    /\ wi' = 0
    /\ UNCHANGED <<disk, period, file_exists, wPeriod, sample_list, via, probes, itemVars, sampleVars, restVars, lateVars>>

\* the operator deletes the cache file to force a recomputation
DeleteCache ==
    /\ file_exists
    /\ wpc # "writing"
    /\ file_exists' = FALSE
    /\ file' = <<>>
    /\ UNCHANGED <<disk, period, wpc, wPeriod, wi, wbuf, sample_list, via, probes, itemVars, sampleVars, restVars, lateVars>>

\* ------------------------------------------------ TitanDataset.sample_list
\* the dates of the lines of the cache file, parsed back
CachedDates(lines) == {strptime(StripLast(lines[i])) : i \in DOMAIN lines}

\* set(dates) without the intersection with the period
dates_of_cache_unfiltered(lines, p) == CachedDates(lines)

\* set(dates).intersection(set(self.period.date_list))
dates_of_cache(lines, p) == CachedDates(lines) \cap Range(date_list(p))

\* list(a set): the elements once each, in an order the set chooses
Orderings(S) ==
    {o \in [1..Cardinality(S) -> S] : \A i, j \in 1..Cardinality(S) : o[i] = o[j] => i = j}

\* the loop over self.period.date_list of the branch without a cache file:
\* one trial Sample and one is_valid call per date, valid samples appended;
\* an exception raised by is_valid ends the loop
RECURSIVE compute_samples(_, _, _)
compute_samples(dl, i, acc) ==
    IF i > Len(dl) THEN acc
    ELSE LET d == dl[i]
             r == is_valid(d)
             pr == [acc.probes EXCEPT ![d] = @ + 1]
         IN  IF r = "raise" THEN [acc EXCEPT !.probes = pr, !.raised = TRUE]
             ELSE compute_samples(dl, i + 1,
                      [acc EXCEPT !.probes = pr,
                                  !.samples = IF r = "True" THEN Append(@, d) ELSE @])

NoSamples == [samples |-> <<>>, probes |-> NoProbes, raised |-> FALSE]

\* sample_list when the cache file exists: read it, parse the dates, keep
\* those of the period; no date is probed
BuildFromCache ==
    /\ via \in {"none", "raised"}
    /\ file_exists
    /\ \E o \in Orderings(dates_of_cache(file, period)) : sample_list' = o
    /\ via' = "cache"
    /\ probes' = NoProbes
    /\ UNCHANGED <<disk, period, file_exists, file, wpc, wPeriod, wi, wbuf, itemVars, sampleVars, restVars, lateVars>>

\* sample_list when the cache file does not exist: probe every date of the
\* period; the cache file is not written
BuildFresh ==
    /\ via \in {"none", "raised"}
    /\ ~file_exists
    /\ LET r == compute_samples(date_list(period), 1, NoSamples)
       IN  /\ probes' = r.probes
           /\ IF r.raised
              THEN /\ via' = "raised"
                   /\ sample_list' = <<>>
              ELSE /\ via' = "fresh"
                   /\ sample_list' = r.samples
    /\ UNCHANGED <<disk, period, file_exists, file, wpc, wPeriod, wi, wbuf, itemVars, sampleVars, restVars, lateVars>>

CacheNext ==
    \/ \E p \in Periods : NewDataset(p)
    \/ WriteOpen
    \/ WriteStep
    \/ WriteFlush
    \/ WriteClose
    \/ DeleteCache
    \/ BuildFromCache
    \/ BuildFresh

\* ====================================================== validity cache claims
\* the cache text of date d: year-month-day_hour h minute, then the newline
TextOf(d) == <<2023, 1, 1 + (d \div 24), d % 24, 0, 10>>

\* the dates of period p at which every parameter is present, in date order
ValidDates(p) == SelectSeq(date_list(p), AllPresent)

\* the complete cache file of period p
CompleteFile(p) == [i \in DOMAIN ValidDates(p) |-> TextOf(ValidDates(p)[i])]

\* sample_list is being built from the cache file in this step
LoadsFromCache == via # "cache" /\ via' = "cache"

\* sample_list is being built by probing the archive in this step
LoadsFresh == via # "fresh" /\ via' = "fresh"

C5_RoundTripSameOrder ==
    [][(LoadsFromCache /\ wpc = "done" /\ wPeriod = period) =>
        sample_list' = compute_samples(date_list(period), 1, NoSamples).samples]_cacheVars

\* C6 as stated: a build without cache file probes every date of the period
\* exactly once and leaves a cache file that lists every valid date.
C6_FreshBuildWritesCache ==
    [][LoadsFresh =>
        /\ \A d \in Range(date_list(period)) : probes'[d] = 1
        /\ file_exists'
        /\ file' = CompleteFile(period)]_cacheVars

\* period q lies within period p
Narrowed(q, p) == q.start >= p.start /\ q.end <= p.end

\* the dates a full recomputation over period p keeps
FreshDates(p) == {d \in Range(date_list(p)) : is_valid(d) = "True"}

C8_NeverLoadsIncompleteCache ==
    [][LoadsFromCache => file = CompleteFile(wPeriod)]_cacheVars

\* C9: while the cache is built, a probe that fails for one date makes that
\* date alone not valid: the failure does not leave write_list_valid_samples,
\* the loop goes on and the finished file lists every other valid date.
C9_ProbeFailureRecovered ==
    /\ wpc # "raised"
    /\ (wpc = "done" /\ file_exists) =>
           \A d \in Range(date_list(wPeriod)) :
               AllPresent(d) => \E i \in DOMAIN file : file[i] = TextOf(d)

\* ================================================================ NamedTensor
\* A NamedTensor is the list of its axis names, the sizes of its axes in
\* the same order, and the names of the features along its "features" axis.
NT(names, shape, feature_names) ==
    [names |-> names, shape |-> shape, feature_names |-> feature_names]

\* position of the first occurrence of x in s (list.index)
IndexOf(s, x) == CHOOSE i \in DOMAIN s : s[i] = x /\ \A j \in 1..(i - 1) : s[j] # x

\* list.insert(i, x) for 0 <= i <= len
InsertAt(s, i, x) == SubSeq(s, 1, i) \o <<x>> \o SubSeq(s, i + 1, Len(s))

\* the list without its element at position k (1-based)
RemoveAt(s, k) == SubSeq(s, 1, k - 1) \o SubSeq(s, k + 1, Len(s))

\* NamedTensor.unsqueeze_(dim_name, dim_index) raises when the index is
\* beyond the number of axes
nt_unsqueeze_raises(nt, dim_name, dim_index) == dim_index > Len(nt.names)

\* NamedTensor.unsqueeze_: a new axis dim_name of size 1 at dim_index
nt_unsqueeze(nt, dim_name, dim_index) ==
    [nt EXCEPT !.names = InsertAt(@, dim_index, dim_name),
               !.shape = InsertAt(@, dim_index, 1)]

\* NamedTensor.squeeze_(dim_name) raises when no axis has that name
nt_squeeze_raises(nt, dim_name) == dim_name \notin Range(nt.names)

\* NamedTensor.squeeze_: the axis named dim_name is removed
nt_squeeze(nt, dim_name) ==
    [nt EXCEPT !.names = RemoveAt(@, IndexOf(nt.names, dim_name)),
               !.shape = RemoveAt(@, IndexOf(nt.names, dim_name))]

\* size of the axis named dim_name (NamedTensor.dim_size)
dim_size(nt, dim_name) == nt.shape[IndexOf(nt.names, dim_name)]

\* ======================================================================= Item
\* axis-name lists and feature-name lists of the tensors handed to Item
NameLists == {<<"timestep", "features">>, <<"features", "timestep">>}
FeatureLists == {<<"t2m">>, <<"t2m", "u10">>}

\* the shapes a tensor of these names and features can have: NamedTensor's
\* constructor wants the size of the features axis to be the number of features
ShapesFor(names, feats) ==
    {sh \in [1..Len(names) -> 1..MaxSize] :
        \A k \in 1..Len(names) : names[k] = "features" => sh[k] = Len(feats)}

Tensors ==
    UNION {{NT(n, sh, f) : sh \in ShapesFor(n, f)} : <<n, f>> \in NameLists \X FeatureLists}

\* the tensors handed to Item as forcing: Item does not compare the axes of
\* forcing with those of inputs, so one of them has a single axis
ForcingTensors ==
    {t \in Tensors : t.feature_names = <<"t2m">>}
        \cup {NT(<<"features">>, <<1>>, <<"t2m">>)}

\* the names given to unsqueeze_ and squeeze_
AxisArgs == {"batch", "timestep"}

NoTensor == NT(<<>>, <<>>, <<>>)
NoItem == [inputs |-> NoTensor, outputs |-> NoTensor, forcing |-> NoTensor]

ItemInit ==
    /\ item = NoItem
    /\ item_made = FALSE
    /\ item_err = "none"

\* Item.__post_init__ that compares the axis names only
post_init_names_only(inputs, outputs) ==
    IF inputs.names # outputs.names THEN "ValueError" ELSE "none"

\* Item.__post_init__: the exception it raises, or "none"
post_init(inputs, outputs) ==
    IF inputs.names # outputs.names THEN "ValueError"
    ELSE IF inputs.feature_names # outputs.feature_names THEN "ValueError"
    ELSE "none"

\* Item(inputs, forcing, outputs): the object exists only if __post_init__
\* returns
NewItem(i, f, o) ==
    /\ item_err' = post_init(i, o)
    /\ IF post_init(i, o) = "none"
       THEN /\ item' = [inputs |-> i, outputs |-> o, forcing |-> f]
            /\ item_made' = TRUE
       ELSE /\ item' = NoItem
            /\ item_made' = FALSE
    /\ UNCHANGED <<cacheVars, sampleVars, restVars, lateVars>>

\* Item.unsqueeze_: inputs, then outputs, then forcing; a tensor that raises
\* leaves the tensors before it already changed
item_unsqueeze(it, dim_name, dim_index) ==
    IF nt_unsqueeze_raises(it.inputs, dim_name, dim_index)
    THEN [item |-> it, err |-> "IndexError"]
    ELSE LET it1 == [it EXCEPT !.inputs = nt_unsqueeze(@, dim_name, dim_index)]
         IN  IF nt_unsqueeze_raises(it.outputs, dim_name, dim_index)
             THEN [item |-> it1, err |-> "IndexError"]
             ELSE LET it2 == [it1 EXCEPT !.outputs = nt_unsqueeze(@, dim_name, dim_index)]
                  IN  IF nt_unsqueeze_raises(it.forcing, dim_name, dim_index)
                      THEN [item |-> it2, err |-> "IndexError"]
                      ELSE [item |-> [it2 EXCEPT !.forcing =
                                         nt_unsqueeze(@, dim_name, dim_index)],
                            err |-> "none"]

\* Item.squeeze_: inputs, then outputs, then forcing, as unsqueeze_
item_squeeze(it, dim_name) ==
    IF nt_squeeze_raises(it.inputs, dim_name)
    THEN [item |-> it, err |-> "ValueError"]
    ELSE LET it1 == [it EXCEPT !.inputs = nt_squeeze(@, dim_name)]
         IN  IF nt_squeeze_raises(it.outputs, dim_name)
             THEN [item |-> it1, err |-> "ValueError"]
             ELSE LET it2 == [it1 EXCEPT !.outputs = nt_squeeze(@, dim_name)]
                  IN  IF nt_squeeze_raises(it.forcing, dim_name)
                      THEN [item |-> it2, err |-> "ValueError"]
                      ELSE [item |-> [it2 EXCEPT !.forcing = nt_squeeze(@, dim_name)],
                            err |-> "none"]

\* the tensors of an item
TensorsOf(it) == {it.inputs, it.outputs, it.forcing}

ItemUnsqueeze(dim_name, dim_index) ==
    /\ item_made
    /\ \A t \in TensorsOf(item) : Len(t.names) < MaxRank
    /\ item' = item_unsqueeze(item, dim_name, dim_index).item
    /\ item_err' = item_unsqueeze(item, dim_name, dim_index).err
    /\ UNCHANGED <<item_made, cacheVars, sampleVars, restVars, lateVars>>

\* squeeze_ is taken on axes of size 1, the axes unsqueeze_ makes
ItemSqueeze(dim_name) ==
    /\ item_made
    /\ \A t \in TensorsOf(item) :
           dim_name \in Range(t.names) => dim_size(t, dim_name) = 1
    /\ item' = item_squeeze(item, dim_name).item
    /\ item_err' = item_squeeze(item, dim_name).err
    /\ UNCHANGED <<item_made, cacheVars, sampleVars, restVars, lateVars>>

ItemNext ==
    \/ ~item_made /\ \E i, o \in Tensors, f \in ForcingTensors : NewItem(i, f, o)
    \/ \E n \in AxisArgs, k \in 0..MaxRank : ItemUnsqueeze(n, k)
    \/ \E n \in AxisArgs : ItemSqueeze(n)

\* --------------------------------------------------------------- Item claims
\* C1: every Item or ItemBatch that exists has the same axis names and the same
\* feature names in inputs and outputs: a construction with a mismatch raises
\* and leaves no object, and unsqueeze_ and squeeze_ keep the equality.
C1_InputsOutputsAgree ==
    /\ item_made =>
           /\ item.inputs.names = item.outputs.names
           /\ item.inputs.feature_names = item.outputs.feature_names
    /\ (~item_made /\ item_err # "none") => item = NoItem

C1_Witness ==
    /\ item_made
    /\ item_err = "IndexError"
    /\ Len(item.inputs.names) = 3
    /\ "batch" \in Range(item.outputs.names)
    /\ Len(item.forcing.names) = 1
    /\ item.inputs.shape # item.outputs.shape

\* ===================================================================== Sample
Kinds == {"input", "output", "input_output"}

\* parameter_short_name of the i-th parameter of the list
ShortNames == <<"t2m", "u10", "v10", "r">>
ShortName(i) == ShortNames[i]

\* a list of L timesteps: the k-th term, or the k-th validity time
Steps(L) == [k \in 1..L |-> k]

Timestamps(terms, validity_times) ==
    [terms |-> terms, validity_times |-> validity_times]

NoTimestamps == Timestamps(<<>>, <<>>)

NoSample ==
    [timestamps |-> NoTimestamps, num_input_steps |-> 0, num_pred_steps |-> 0,
     standardize |-> FALSE, kinds |-> <<>>, member |-> 0,
     input_timestamps |-> NoTimestamps, output_timestamps |-> NoTimestamps]

SampleInit ==
    /\ sample = NoSample
    /\ sample_made = FALSE
    /\ sample_err = "none"
    /\ load_state = "none"
    /\ load_err = "none"
    /\ load_via = "none"
    /\ loaded = NoItem
    /\ fetch_calls = <<>>
    /\ fetch_fails = {}
    /\ splits = <<>>
    /\ reloaded = FALSE

\* s[:n] and s[n:] of a list, for 0 <= n
Take(s, n) == SubSeq(s, 1, IF n < Len(s) THEN n ELSE Len(s))
Drop(s, n) == SubSeq(s, n + 1, Len(s))
\* s[-n:] of a list: the last n elements, and the whole list for n = 0
Last(s, n) == IF n = 0 \/ n >= Len(s) THEN s ELSE SubSeq(s, Len(s) - n + 1, Len(s))

\* the length test of Sample.__post_init__: the exception it raises, or "none"
sample_post_init(ts, n_in, n_pred) ==
    IF n_in + n_pred # Len(ts.validity_times) THEN "Exception" ELSE "none"

\* the fields of a Sample whose __post_init__ returned: input_timestamps and
\* output_timestamps are the first num_input_steps entries and the rest
SampleOf(ts, n_in, n_pred, std, kinds, member) ==
    [timestamps |-> ts, num_input_steps |-> n_in,
     num_pred_steps |-> n_pred, standardize |-> std,
     kinds |-> kinds, member |-> member,
     input_timestamps |->
         Timestamps(Take(ts.terms, n_in), Take(ts.validity_times, n_in)),
     output_timestamps |->
         Timestamps(Drop(ts.terms, n_in), Drop(ts.validity_times, n_in))]

\* Sample(timestamps, settings, params, ...): __post_init__ tests the length
\* and splits the timestamps into the input and the output sub-range
NewSample(ts, n_in, n_pred, std, kinds, member) ==
    /\ sample_err' = sample_post_init(ts, n_in, n_pred)
    /\ IF sample_post_init(ts, n_in, n_pred) = "none"
       THEN /\ sample_made' = TRUE
            /\ sample' = SampleOf(ts, n_in, n_pred, std, kinds, member)
       ELSE /\ sample_made' = FALSE
            /\ sample' = NoSample
    /\ load_state' = "none"
    /\ load_err' = "none"
    /\ load_via' = "none"
    /\ loaded' = NoItem
    /\ fetch_calls' = <<>>
    /\ fetch_fails' = {}
    /\ splits' = <<>>
    /\ reloaded' = FALSE
    /\ UNCHANGED <<cacheVars, itemVars, restVars, lateVars>>

\* ---------------------------------------------------------------- Sample.load
StateNames == <<"timestep", "lat", "lon", "features">>

\* the NamedTensor made of a fetched array of T timesteps of parameter i
StateTensor(i, T) == NT(StateNames, <<T, LatSize, LonSize, 1>>, <<ShortName(i)>>)

\* NamedTensor.concat raises on an empty list and on tensors that differ in
\* axis names or in the size of an axis other than features
concat_raises(nts) ==
    \/ nts = <<>>
    \/ \E a, b \in DOMAIN nts :
          \/ nts[a].names # nts[b].names
          \/ \E k \in DOMAIN nts[a].names :
                nts[a].names[k] # "features" /\ nts[a].shape[k] # nts[b].shape[k]

RECURSIVE concat_features(_, _)
concat_features(nts, i) ==
    IF i > Len(nts) THEN <<>> ELSE nts[i].feature_names \o concat_features(nts, i + 1)

\* NamedTensor.concat: the tensors joined along the features axis
concat(nts) ==
    NT(nts[1].names,
       [k \in DOMAIN nts[1].names |->
           IF nts[1].names[k] = "features"
           THEN Len(concat_features(nts, 1)) ELSE nts[1].shape[k]],
       concat_features(nts, 1))

\* the forcings computed over the input terms of the sample
forcings_over_inputs(s) ==
    LET T == Len(s.input_timestamps.terms)
        sh(F) == <<T, LatSize, LonSize, F>>
    IN  << NT(StateNames, sh(2), <<"cos_hour", "sin_hour">>),
           NT(StateNames, sh(2), <<"cos_doy", "sin_doy">>),
           NT(StateNames, sh(1), <<"toa_radiation">>) >>

\* generate_forcings, each tensor then expanded to the axes of linputs[0]
\* (unsqueeze_and_expand_from_): the hour and the day-of-year encodings and
\* the solar forcing, over the output terms
forcings(s) ==
    LET T == Len(s.output_timestamps.terms)
        sh(F) == <<T, LatSize, LonSize, F>>
    IN  << NT(StateNames, sh(2), <<"cos_hour", "sin_hour">>),
           NT(StateNames, sh(2), <<"cos_doy", "sin_doy">>),
           NT(StateNames, sh(1), <<"toa_radiation">>) >>

NoLoad ==
    [linputs |-> <<>>, loutputs |-> <<>>, calls |-> <<>>, splits |-> <<>>,
     err |-> "none"]

\* the two slices of the array fetched for input_output parameter i, an array
\* with one row per validity time of the call: tensor[-num_pred_steps:] for
\* the outputs and tensor[:num_input_steps] for the inputs
Split(s, i, rows) ==
    [param |-> i, outputs |-> Last(rows, s.num_pred_steps),
     inputs |-> Take(rows, s.num_input_steps)]

\* the get_param_tensor call of parameter i
FetchCall(s, no_standardize, i) ==
    [param |-> i,
     timestamps |-> CASE s.kinds[i] = "input" -> s.input_timestamps
                      [] s.kinds[i] = "output" -> s.output_timestamps
                      [] OTHER -> s.timestamps,
     standardize |-> (s.standardize /\ ~no_standardize),
     member |-> s.member]

\* the parameter loop of load with a fetch failure caught and the parameter skipped
RECURSIVE load_params_skip_failed(_, _, _, _, _)
load_params_skip_failed(s, no_standardize, fails, i, acc) ==
    IF i > Len(s.kinds) THEN acc
    ELSE LET call == FetchCall(s, no_standardize, i)
             T == Len(call.timestamps.validity_times)
             acc1 == [acc EXCEPT !.calls = Append(@, call)]
         IN  IF i \in fails
             THEN load_params_skip_failed(s, no_standardize, fails, i + 1, acc1)
             ELSE load_params_skip_failed(s, no_standardize, fails, i + 1,
                    CASE s.kinds[i] = "input" -> acc1
                      [] s.kinds[i] = "output" ->
                           [acc1 EXCEPT !.loutputs = Append(@, StateTensor(i, T))]
                      [] OTHER ->
                           LET sp == Split(s, i, call.timestamps.validity_times)
                           IN  [acc1 EXCEPT
                                  !.loutputs = Append(@, StateTensor(i, Len(sp.outputs))),
                                  !.linputs = Append(@, StateTensor(i, Len(sp.inputs))),
                                  !.splits = Append(@, sp)])

\* the parameter loop of load with the tensor of an output parameter not kept
RECURSIVE load_params_drops_outputs(_, _, _, _, _)
load_params_drops_outputs(s, no_standardize, fails, i, acc) ==
    IF i > Len(s.kinds) THEN acc
    ELSE LET call == FetchCall(s, no_standardize, i)
             acc1 == [acc EXCEPT !.calls = Append(@, call)]
         IN  IF i \in fails
             THEN [acc1 EXCEPT !.err = "FetchError"]
             ELSE load_params_drops_outputs(s, no_standardize, fails, i + 1,
                    IF s.kinds[i] \in {"input", "output"} THEN acc1
                    ELSE LET sp == Split(s, i, call.timestamps.validity_times)
                         IN  [acc1 EXCEPT
                                !.loutputs = Append(@, StateTensor(i, Len(sp.outputs))),
                                !.linputs = Append(@, StateTensor(i, Len(sp.inputs))),
                                !.splits = Append(@, sp)])

\* the parameter loop of load: one get_param_tensor call per parameter over
\* the timestamps of its kind; the tensor of an input parameter is not kept,
\* that of an output parameter goes to loutputs, that of an input_output
\* parameter is split into tensor[-num_pred_steps:] and tensor[:num_input_steps];
\* a call that raises ends the loop
RECURSIVE load_params(_, _, _, _, _)
load_params(s, no_standardize, fails, i, acc) ==
    IF i > Len(s.kinds) THEN acc
    ELSE LET call == FetchCall(s, no_standardize, i)
             T == Len(call.timestamps.validity_times)
             acc1 == [acc EXCEPT !.calls = Append(@, call)]
         IN  IF i \in fails
             THEN [acc1 EXCEPT !.err = "FetchError"]
             ELSE load_params(s, no_standardize, fails, i + 1,
                    CASE s.kinds[i] = "input" -> acc1
                      [] s.kinds[i] = "output" ->
                           [acc1 EXCEPT !.loutputs = Append(@, StateTensor(i, T))]
                      [] OTHER ->
                           LET sp == Split(s, i, call.timestamps.validity_times)
                           IN  [acc1 EXCEPT
                                  !.loutputs = Append(@, StateTensor(i, Len(sp.outputs))),
                                  !.linputs = Append(@, StateTensor(i, Len(sp.inputs))),
                                  !.splits = Append(@, sp)])

\* the body of Sample.load, its two lists starting as lists0: the parameter
\* loop, the forcings (linputs[0] must exist), the three concatenations and
\* the Item; the result is the Item or the exception
load_from(s, no_standardize, fails, lists0) ==
    LET r == load_params(s, no_standardize, fails, 1, lists0)
        none == [item |-> NoItem, calls |-> r.calls, splits |-> r.splits]
    IN  IF r.err # "none" THEN none @@ [err |-> r.err]
        ELSE IF r.linputs = <<>> THEN none @@ [err |-> "IndexError"]
        ELSE IF concat_raises(r.linputs) \/ concat_raises(r.loutputs)
                  \/ concat_raises(forcings(s))
             THEN none @@ [err |-> "ValueError"]
        ELSE IF post_init(concat(r.linputs), concat(r.loutputs)) # "none"
             THEN none @@ [err |-> post_init(concat(r.linputs), concat(r.loutputs))]
        ELSE [item |-> [inputs |-> concat(r.linputs),
                        outputs |-> concat(r.loutputs),
                        forcing |-> concat(forcings(s))],
              calls |-> r.calls, splits |-> r.splits, err |-> "none"]

\* load with linputs and loutputs kept on the object between two calls
load_keeps_lists(s, no_standardize, fails) ==
    load_from(s, no_standardize, fails,
        IF load_state = "returned"
        THEN [NoLoad EXCEPT !.linputs = <<loaded.inputs>>,
                            !.loutputs = <<loaded.outputs>>]
        ELSE NoLoad)

\* Sample.load: linputs, loutputs = [], [] and the body
load(s, no_standardize, fails) == load_from(s, no_standardize, fails, NoLoad)

\* the state after a load call of the sample
LoadCall(no_standardize, fails, who) ==
    /\ reloaded' = (load_state # "none")
    /\ \E r \in {load(sample, no_standardize, fails)} :
        /\ load_state' = IF r.err = "none" THEN "returned" ELSE "raised"
        /\ load_err' = r.err
        /\ load_via' = who
        /\ loaded' = r.item
        /\ fetch_calls' = r.calls
        /\ splits' = r.splits
        /\ fetch_fails' = fails
        /\ UNCHANGED <<sample, sample_made, sample_err, cacheVars, itemVars, restVars, lateVars>>

\* sample.load(no_standardize), called directly
Load(no_standardize, fails) == LoadCall(no_standardize, fails, "load")

\* DatasetABC.__getitem__: item = sample.load(); return item
GetItem(fails) == LoadCall(FALSE, fails, "getitem")

\* the parameter lists of the model, as the list of the kinds
KindLists == UNION {[1..n -> Kinds] : n \in 0..MaxParams}

\* the timestamps handed to Sample: terms and validity_times of any lengths
TimestampsInputs == {Timestamps(Steps(lt), Steps(lv)) : lt, lv \in 0..MaxLen}

\* the fetch failures of one load call: none, or the fetch of one parameter
\* (the loop ends at the first failing fetch)
FailSets(s) == {{}} \cup {{i} : i \in 1..Len(s.kinds)}

SampleInputs ==
    TimestampsInputs \X (1..MaxInputSteps) \X (0..MaxPredSteps) \X BOOLEAN
        \X KindLists \X {0}

SampleNext ==
    \/ ~sample_made /\ \E a \in SampleInputs :
                            NewSample(a[1], a[2], a[3], a[4], a[5], a[6])
    \/ sample_made /\ \E ns \in BOOLEAN, fails \in FailSets(sample) : Load(ns, fails)
    \/ sample_made /\ \E fails \in FailSets(sample) : GetItem(fails)

\* ================================================================= collate_fn
\* collate_fn walks the fields of Item in their declaration order
ItemFields == <<"inputs", "forcing", "outputs">>

\* a cached property that was not read yet, and one that stored value v
NotCached == [set |-> FALSE, val |-> 0]
Cached(v) == [set |-> TRUE, val |-> v]

NoCache ==
    [batch_size |-> NotCached, num_input_steps |-> NotCached,
     num_pred_steps |-> NotCached]

NoRows == [inputs |-> <<>>, forcing |-> <<>>, outputs |-> <<>>]

BatchInit ==
    /\ items = <<>>
    /\ brows = NoRows
    /\ bcache = NoCache

\* the field f of every item of the list
FieldOf(its, f) == [i \in DOMAIN its |-> its[i][f]]

\* collate_tensor_fn (torch.stack along a new axis 0) raises on an empty list
\* and on tensors whose shapes differ
collate_tensor_raises(ts) ==
    IF ts = <<>> THEN "IndexError"
    ELSE IF \E i \in DOMAIN ts : ts[i].shape # ts[1].shape THEN "RuntimeError"
    ELSE "none"


\* expand_to_batch_like with the new axis placed last
expand_to_batch_like_trailing(ts) ==
    NT(Append(ts[1].names, "batch"), Append(ts[1].shape, Len(ts)),
       ts[1].feature_names)

\* NamedTensor.expand_to_batch_like(batched_tensor, items[0].field): the
\* stacked tensor under the names ["batch"] + names of the first item and
\* the feature names of the first item
expand_to_batch_like(ts) ==
    NT(<<"batch">> \o ts[1].names, <<Len(ts)>> \o ts[1].shape,
       ts[1].feature_names)

\* collate_fn: every field stacked and named after items[0], then
\* ItemBatch(**batch_of_items) and its __post_init__
collate_fn(its) ==
    LET errs == [k \in DOMAIN ItemFields |->
                    collate_tensor_raises(FieldOf(its, ItemFields[k]))]
        bad == {k \in DOMAIN ItemFields : errs[k] # "none"}
        first == CHOOSE k \in bad : \A j \in bad : k <= j
        b == [f \in Range(ItemFields) |-> expand_to_batch_like(FieldOf(its, f))]
    IN  IF bad # {} THEN [item |-> NoItem, err |-> errs[first], rows |-> NoRows]
        ELSE IF post_init(b.inputs, b.outputs) # "none"
             THEN [item |-> NoItem, err |-> post_init(b.inputs, b.outputs),
                   rows |-> NoRows]
        ELSE [item |-> [inputs |-> b.inputs, outputs |-> b.outputs,
                        forcing |-> b.forcing],
              err |-> "none",
              rows |-> [f \in Range(ItemFields) |-> FieldOf(its, f)]]

\* batch = collate_fn(items)
Collate(its) ==
    /\ ~item_made
    /\ items = <<>>
    /\ items' = its
    /\ item' = collate_fn(its).item
    /\ item_err' = collate_fn(its).err
    /\ item_made' = (collate_fn(its).err = "none")
    /\ brows' = collate_fn(its).rows
    /\ bcache' = NoCache
    /\ UNCHANGED <<cacheVars, sampleVars, dummyVars, periodVars, lateVars>>

\* a cached property of the ItemBatch that returns nt.dim_size(dim_name): the
\* first read computes and stores the value, later reads return what is stored
read_cached(cache, nt, dim_name) ==
    IF cache.set THEN [cache |-> cache, err |-> "none"]
    ELSE IF dim_name \notin Range(nt.names) THEN [cache |-> cache, err |-> "ValueError"]
    ELSE [cache |-> Cached(dim_size(nt, dim_name)), err |-> "none"]


\* ItemBatch.batch_size
ReadBatchSize ==
    /\ item_made
    /\ bcache' = [bcache EXCEPT !.batch_size =
                      read_cached(@, item.inputs, "batch").cache]
    /\ item_err' = read_cached(bcache.batch_size, item.inputs, "batch").err
    /\ UNCHANGED <<item, item_made, items, brows, cacheVars, sampleVars, dummyVars, periodVars, lateVars>>

\* ItemBatch.num_input_steps
ReadNumInputSteps ==
    /\ item_made
    /\ bcache' = [bcache EXCEPT !.num_input_steps =
                      read_cached(@, item.inputs, "timestep").cache]
    /\ item_err' = read_cached(bcache.num_input_steps, item.inputs, "timestep").err
    /\ UNCHANGED <<item, item_made, items, brows, cacheVars, sampleVars, dummyVars, periodVars, lateVars>>

\* ItemBatch.num_pred_steps
ReadNumPredSteps ==
    /\ item_made
    /\ bcache' = [bcache EXCEPT !.num_pred_steps =
                      read_cached(@, item.outputs, "timestep").cache]
    /\ item_err' = read_cached(bcache.num_pred_steps, item.outputs, "timestep").err
    /\ UNCHANGED <<item, item_made, items, brows, cacheVars, sampleVars, dummyVars, periodVars, lateVars>>

\* the Items of the model handed to collate_fn: inputs, outputs of the same
\* names and features, and a forcing over the axes of inputs
BatchItems ==
    {[inputs |-> i, outputs |-> o, forcing |-> f] :
        <<i, o, f>> \in {x \in Tensors \X Tensors \X Tensors :
            /\ post_init(x[1], x[2]) = "none"
            /\ x[2].shape = x[1].shape
            /\ x[3].names = x[1].names
            /\ x[3].feature_names = <<"t2m">>
            /\ dim_size(x[3], "timestep") = dim_size(x[1], "timestep")}}

\* the lists of at most MaxBatch Items
ItemLists == UNION {[1..n -> BatchItems] : n \in 0..MaxBatch}

BatchNext ==
    \/ \E its \in ItemLists : Collate(its)
    \/ \E n \in AxisArgs, k \in 0..MaxRank : ItemUnsqueeze(n, k)
    \/ \E n \in AxisArgs : ItemSqueeze(n)
    \/ ReadBatchSize
    \/ ReadNumInputSteps
    \/ ReadNumPredSteps

\* ============================================================== DummyAccessor
\* the load calls that run side by side, each on its own sample
Loaders == 1..2

\* dummy_data.npy: absent, or the array of length len saved by loader by
NoDummyFile == [exists |-> FALSE, len |-> 0, by |-> 0]
NoArray == [len |-> 0, by |-> 0]

\* the dataset directory is empty; each loader was given the timestamps of
\* its sample
DummyInit ==
    /\ dfile = NoDummyFile
    /\ dterms \in [Loaders -> 1..MaxLen]
    /\ dpc = [p \in Loaders |-> "start"]
    /\ dgot = [p \in Loaders |-> NoArray]

\* DummyAccessor.get_filepath: the test os.path.exists(.../dummy_data.npy)
GetFilepathExists(p) ==
    /\ dpc[p] = "start"
    /\ dpc' = [dpc EXCEPT ![p] = IF dfile.exists THEN "load" ELSE "save"]
    /\ UNCHANGED <<dfile, dterms, dgot, cacheVars, itemVars, sampleVars, batchVars, periodVars, lateVars>>

\* DummyAccessor.get_filepath: arr = np.random.randn(len(timestamps.terms),
\* 64, 64, 1) and np.save(.../dummy_data.npy, arr)
GetFilepathSave(p) ==
    /\ dpc[p] = "save"
    /\ dfile' = [exists |-> TRUE, len |-> dterms[p], by |-> p]
    /\ dpc' = [dpc EXCEPT ![p] = "load"]
    /\ UNCHANGED <<dterms, dgot, cacheVars, itemVars, sampleVars, batchVars, periodVars, lateVars>>

\* DummyAccessor.load_data_from_disk: arr = np.load(path); return arr
LoadDataFromDisk(p) ==
    /\ dpc[p] = "load"
    /\ dgot' = [dgot EXCEPT ![p] = [len |-> dfile.len, by |-> dfile.by]]
    /\ dpc' = [dpc EXCEPT ![p] = "done"]
    /\ UNCHANGED <<dfile, dterms, cacheVars, itemVars, sampleVars, batchVars, periodVars, lateVars>>

DummyNext ==
    \E p \in Loaders :
        \/ GetFilepathExists(p)
        \/ GetFilepathSave(p)
        \/ LoadDataFromDisk(p)

\* ===================================================== Period as it is given
\* hours of the day at which start and end of a period are given
PeriodHours == {0, 3, 6}

\* the times start and end are given as (YYYYMMDDHH)
PeriodTimes == {HoursPerDay * d + h : d \in 0..MaxDay, h \in PeriodHours}

\* the Period objects of the model
PeriodArgs ==
    [start : PeriodTimes, end : PeriodTimes,
     term_start : 0..MaxTerm, term_end : 0..MaxTerm, step_duration : 1..MaxStep]

PeriodInit ==
    /\ pargs \in PeriodArgs
    /\ pdates = <<>>
    /\ pterms = <<>>
    /\ pread = {}

\* np.arange(term_start, term_end, step_duration)
terms_list_end_excluded(p) ==
    [k \in 1..ArangeLen(p.term_start, p.term_end, p.step_duration) |->
        p.term_start + (k - 1) * p.step_duration]

\* Period.terms_list: np.arange(term_start, term_end + 1, step_duration)
terms_list(p) ==
    [k \in 1..ArangeLen(p.term_start, p.term_end + 1, p.step_duration) |->
        p.term_start + (k - 1) * p.step_duration]

\* a read of period.date_list
ReadDateList ==
    /\ pdates' = date_list(pargs)
    /\ pread' = pread \cup {"date_list"}
    /\ UNCHANGED <<pargs, pterms, cacheVars, itemVars, sampleVars, batchVars, dummyVars, lateVars>>

\* a read of period.terms_list
ReadTermsList ==
    /\ pterms' = terms_list(pargs)
    /\ pread' = pread \cup {"terms_list"}
    /\ UNCHANGED <<pargs, pdates, cacheVars, itemVars, sampleVars, batchVars, dummyVars, lateVars>>

PeriodNext == ReadDateList \/ ReadTermsList

\* ======================================================= DatasetABC.dataset_info
\* the number of parameters of kind k among params[i..]
RECURSIVE count_kind(_, _, _)
count_kind(kinds, k, i) ==
    IF i > Len(kinds) THEN 0
    ELSE (IF kinds[i] = k THEN 1 ELSE 0) + count_kind(kinds, k, i + 1)

\* DatasetABC.input_dim: 4 for the date, 1 for the solar forcing and one per
\* input parameter
input_dim(kinds) == 4 + 1 + count_kind(kinds, "input", 1)

\* DatasetABC.input_output_dim: one per input_output parameter
input_output_dim(kinds) == count_kind(kinds, "input_output", 1)

\* the two feature counts of DatasetABC.dataset_info
dataset_info(kinds) ==
    [weather_dim |-> input_output_dim(kinds), forcing_dim |-> input_dim(kinds)]

\* ============================================================ Sample.is_valid
\* what exists answers for one parameter: True, False, or it raises
ExistsAnswers == {"True", "False", "raise"}

ValidInit ==
    /\ valid_state = "none"
    /\ valid_probes = <<>>
    /\ valid_exists = <<>>

\* is_valid written as all([exists(...) for param in params]): every
\* parameter is probed before the answers are combined
RECURSIVE sample_is_valid_probes_all(_, _, _)
sample_is_valid_probes_all(ex, i, probed) ==
    IF i > Len(ex)
    THEN [result |-> IF \A k \in DOMAIN ex : ex[k] = "True" THEN "True" ELSE "False",
          probes |-> probed]
    ELSE IF ex[i] = "raise" THEN [result |-> "raise", probes |-> Append(probed, i)]
    ELSE sample_is_valid_probes_all(ex, i + 1, Append(probed, i))

\* Sample.is_valid from parameter i on, ex being the answers of exists: the
\* loop returns False at the first parameter that does not exist, True after
\* the last one; an exception of exists leaves the call
RECURSIVE sample_is_valid(_, _, _)
sample_is_valid(ex, i, probed) ==
    IF i > Len(ex) THEN [result |-> "True", probes |-> probed]
    ELSE IF ex[i] = "raise" THEN [result |-> "raise", probes |-> Append(probed, i)]
    ELSE IF ex[i] = "False" THEN [result |-> "False", probes |-> Append(probed, i)]
    ELSE sample_is_valid(ex, i + 1, Append(probed, i))

\* is_valid that takes the parameters off the list as it probes them
IsValid_consumes(ex) ==
    /\ valid_state' = sample_is_valid(ex, 1, <<>>).result
    /\ valid_probes' = sample_is_valid(ex, 1, <<>>).probes
    /\ valid_exists' = ex
    /\ sample' = [sample EXCEPT !.kinds = Drop(@, Len(sample_is_valid(ex, 1, <<>>).probes))]
    /\ UNCHANGED <<sample_made, sample_err, load_state, load_err, load_via, loaded,
                   fetch_calls, fetch_fails, splits, reloaded>>
    /\ UNCHANGED <<cacheVars, itemVars, restVars, regVars, fetchVars>>

\* sample.is_valid() while exists answers ex[i] for the i-th parameter
IsValid(ex) ==
    /\ valid_state' = sample_is_valid(ex, 1, <<>>).result
    /\ valid_probes' = sample_is_valid(ex, 1, <<>>).probes
    /\ valid_exists' = ex
    /\ UNCHANGED <<sampleVars, cacheVars, itemVars, restVars, regVars, fetchVars>>

\* the samples is_valid and load are called on: constructed from timestamps of
\* num_input_steps + num_pred_steps entries
ValidSamples ==
    {SampleOf(Timestamps(Steps(n_in + n_pred), Steps(n_in + n_pred)),
              n_in, n_pred, TRUE, kinds, 0) :
        n_in \in 1..MaxInputSteps, n_pred \in 1..MaxPredSteps, kinds \in KindLists}

\* a Sample just constructed
ConstructedInit ==
    /\ sample \in ValidSamples
    /\ sample_made = TRUE
    /\ sample_err = "none"
    /\ load_state = "none"
    /\ load_err = "none"
    /\ load_via = "none"
    /\ loaded = NoItem
    /\ fetch_calls = <<>>
    /\ fetch_fails = {}
    /\ splits = <<>>
    /\ reloaded = FALSE

ValidNext ==
    \/ \E ex \in [1..Len(sample.kinds) -> ExistsAnswers] : IsValid(ex)
    \/ \E ns \in BOOLEAN : Load(ns, {})

\* ===================================================== get_param_tensor
\* the values of the model: means and raw values, and the standard deviations
RawValues == 0..2
StdValues == 0..2

\* a value of an array: the fraction num/den in lowest terms, or what numpy
\* gives for a division by zero
RECURSIVE GCD(_, _)
GCD(a, b) == IF b = 0 THEN a ELSE GCD(b, a % b)
Abs(a) == IF a < 0 THEN -a ELSE a
Frac(num, den) ==
    IF den = 0
    THEN (IF num > 0 THEN "inf" ELSE IF num < 0 THEN "-inf" ELSE "nan")
    ELSE LET g == GCD(Abs(num), Abs(den))
         IN  <<num \div g, den \div g>>

\* (arr - means) / std, element by element
standardized(arr, mean, std) == [k \in DOMAIN arr |-> Frac(arr[k] - mean, std)]
\* torch.from_numpy(arr) of the array as read
unchanged(arr) == [k \in DOMAIN arr |-> Frac(arr[k], 1)]
\* v * std + mean of a value that is a fraction
destandardized(v, mean, std) == Frac(v[1] * std + mean * v[2], v[2])

\* the keywords of the get_param_tensor call in Sample.load
LoadKeywords == {"param", "stats", "timestamps", "settings", "standardize", "member"}
\* the parameters of TitanAccessor.get_param_tensor, and those without default
TitanParameters == {"param", "stats", "dates", "settings", "no_standardize"}
TitanRequired == {"param", "stats", "dates", "settings"}

\* a Python call by keywords raises TypeError on a keyword the function does
\* not have and on a parameter without default that is not given
call_raises(keywords, parameters, required) ==
    ~(keywords \subseteq parameters) \/ ~(required \subseteq keywords)

\* the body of TitanAccessor.get_param_tensor: the rows stacked, standardized
\* if settings.standardize and not no_standardize
get_param_tensor(a, no_standardize) ==
    IF a.standardize /\ ~no_standardize
    THEN standardized(a.raw, a.mean, a.std)
    ELSE unchanged(a.raw)

FetchArgs ==
    [standardize : BOOLEAN, kind : Kinds, raw : [1..2 -> RawValues],
     mean : RawValues, std : StdValues]

NoFetch == [by |-> "none", no_standardize |-> FALSE, err |-> "none", values |-> <<>>]

FetchInit ==
    /\ fargs \in FetchArgs
    /\ fres = NoFetch

\* the fetch of one parameter in sample.load(no_standardize): the call passes
\* LoadKeywords, standardize being settings.standardize and not no_standardize
LoadFetch(no_standardize) ==
    /\ fres' =
          IF call_raises(LoadKeywords, TitanParameters, TitanRequired)
          THEN [by |-> "load", no_standardize |-> no_standardize,
                err |-> "TypeError", values |-> <<>>]
          ELSE [by |-> "load", no_standardize |-> no_standardize, err |-> "none",
                values |-> get_param_tensor(fargs, FALSE)]
    /\ UNCHANGED <<fargs, cacheVars, itemVars, sampleVars, restVars, regVars, validVars>>

\* get_param_tensor(param, stats, dates, settings, no_standardize), called
\* with its own parameters
GetParamTensor(no_standardize) ==
    /\ fres' = [by |-> "direct", no_standardize |-> no_standardize, err |-> "none",
                values |-> get_param_tensor(fargs, no_standardize)]
    /\ UNCHANGED <<fargs, cacheVars, itemVars, sampleVars, restVars, regVars, validVars>>

FetchNext ==
    \/ \E ns \in BOOLEAN : LoadFetch(ns)
    \/ \E ns \in BOOLEAN : GetParamTensor(ns)

\* =============================================================== get_datasets
\* the names the module registers, each if its import succeeds
RegisteredNames == {"smeagol", "smeagol_infer", "titan", "poesy", "poesy_infer", "dummy"}

\* the tuple registered under each name
RegistryEntries ==
    [n \in RegisteredNames |->
        CASE n = "smeagol" -> <<"SmeagolDataset", "smeagol.json">>
          [] n = "smeagol_infer" -> <<"InferSmeagolDataset", "smeagol.json">>
          [] n = "titan" -> <<"Titan", "TitanDataset", "TitanAccessor", "titan_full.json">>
          [] n = "poesy" -> <<"Poesy", "PoesyDataset", "PoesyAccessor", "poesy_refacto.json">>
          [] n = "poesy_infer" ->
                <<"Poesy", "InferPoesyDataset", "PoesyAccessor", "poesy_infer.json">>
          [] OTHER -> <<"DummyDataset", "">>]

\* the registry once the module is imported: an import that fails is caught
\* and its name is not registered
Registries == {[n \in S |-> RegistryEntries[n]] : S \in SUBSET RegisteredNames}

\* the names asked of get_datasets, and its config_file argument
RequestNames == RegisteredNames \cup {"unknown"}
ConfigFiles == {"None", "my_config.json"}

NoRequest == [name |-> "", config_file |-> "None"]
NoResult ==
    [called |-> FALSE, err |-> "none", listed |-> {}, dataset_name |-> "",
     dataset_kls |-> "", accessor_kls |-> "", config_file |-> ""]

RegistryInit ==
    /\ registry \in Registries
    /\ req = NoRequest
    /\ got = NoResult

\* get_datasets: registry[name] unpacked into four names; a KeyError becomes
\* the lookup error that lists registry.keys(), a tuple that is not of four
\* fields makes the unpacking raise; then dataset_kls.from_json is called with
\* the accessor, the dataset name and the default or the given config file
get_datasets(reg, name, config_file) ==
    IF name \notin DOMAIN reg
    THEN [NoResult EXCEPT !.called = TRUE, !.err = "DatasetLookupError",
                          !.listed = DOMAIN reg]
    ELSE IF Len(reg[name]) # 4
    THEN [NoResult EXCEPT !.called = TRUE, !.err = "UnpackError"]
    ELSE [NoResult EXCEPT !.called = TRUE,
             !.dataset_name = reg[name][1], !.dataset_kls = reg[name][2],
             !.accessor_kls = reg[name][3],
             !.config_file = IF config_file = "None" THEN reg[name][4] ELSE config_file]

GetDatasets(name, config_file) ==
    /\ req' = [name |-> name, config_file |-> config_file]
    /\ got' = get_datasets(registry, name, config_file)
    /\ UNCHANGED <<registry, cacheVars, itemVars, sampleVars, restVars, validVars, fetchVars>>

RegistryNext == \E name \in RequestNames, cf \in ConfigFiles : GetDatasets(name, cf)

\* the state of the parts a specification leaves alone
BatchQuiet == BatchInit
DummyQuiet ==
    /\ DummyInit
    /\ dterms = [p \in Loaders |-> 1]
PeriodQuiet ==
    /\ PeriodInit
    /\ pargs = [start |-> 0, end |-> 0, term_start |-> 0, term_end |-> 0,
                step_duration |-> 1]
RegistryQuiet ==
    /\ registry = RegistryEntries
    /\ req = NoRequest
    /\ got = NoResult
FetchQuiet ==
    /\ fargs = [standardize |-> FALSE, kind |-> "input", raw |-> <<0, 0>>,
                mean |-> 0, std |-> 0]
    /\ fres = NoFetch
LateQuiet == RegistryQuiet /\ ValidInit /\ FetchQuiet
RestQuiet == BatchQuiet /\ DummyQuiet /\ PeriodQuiet /\ LateQuiet

\* ------------------------------------------------------------- specifications
\* no dataset at work: a full archive, no cache file
CacheQuiet ==
    /\ disk = [c \in DateUniverse \X Params |-> "present"]
    /\ period = [start |-> 0, end |-> 0]
    /\ CacheInit

\* the validity cache of a split
Init == CacheInit /\ ItemInit /\ SampleInit /\ RestQuiet
Spec == Init /\ [][CacheNext]_vars

\* Item and its in-place operations
InitItem == CacheQuiet /\ ItemInit /\ SampleInit /\ RestQuiet
SpecItem == InitItem /\ [][ItemNext]_vars

\* Sample: construction and load
InitSample == CacheQuiet /\ ItemInit /\ SampleInit /\ RestQuiet
SpecSample == InitSample /\ [][SampleNext]_vars

\* collate_fn and the ItemBatch it returns
InitBatch ==
    CacheQuiet /\ ItemInit /\ SampleInit /\ BatchInit /\ DummyQuiet /\ PeriodQuiet
        /\ LateQuiet
SpecBatch == InitBatch /\ [][BatchNext]_vars

\* load calls that fetch through the DummyAccessor side by side
InitDummy ==
    CacheQuiet /\ ItemInit /\ SampleInit /\ BatchQuiet /\ DummyInit /\ PeriodQuiet
        /\ LateQuiet
SpecDummy == InitDummy /\ [][DummyNext]_vars

\* Period and its two lists
InitPeriod ==
    CacheQuiet /\ ItemInit /\ SampleInit /\ BatchQuiet /\ DummyQuiet /\ PeriodInit
        /\ LateQuiet
SpecPeriod == InitPeriod /\ [][PeriodNext]_vars

\* the registry and get_datasets
InitRegistry ==
    CacheQuiet /\ ItemInit /\ SampleInit /\ BatchQuiet /\ DummyQuiet /\ PeriodQuiet
        /\ RegistryInit /\ ValidInit /\ FetchQuiet
SpecRegistry == InitRegistry /\ [][RegistryNext]_vars

\* is_valid and load calls on a constructed Sample
InitValid == CacheQuiet /\ ItemInit /\ ConstructedInit /\ RestQuiet
SpecValid == InitValid /\ [][ValidNext]_vars

\* one fetch through TitanAccessor.get_param_tensor
InitFetch ==
    CacheQuiet /\ ItemInit /\ SampleInit /\ BatchQuiet /\ DummyQuiet /\ PeriodQuiet
        /\ RegistryQuiet /\ ValidInit /\ FetchInit
SpecFetch == InitFetch /\ [][FetchNext]_vars

\* ------------------------------------------------------------- Sample claims
\* C2: every Sample that was constructed has as many terms as
\* num_input_steps + num_pred_steps, whatever the length of validity_times.
C2_TermsLength ==
    sample_made =>
        Len(sample.timestamps.terms) = sample.num_input_steps + sample.num_pred_steps

\* C10: a fetch that fails during load (called directly or by __getitem__)
\* leaves load as an exception: no Item comes back, the failing fetch is the
\* last call made and it is made once.
C10_FetchFailurePropagates ==
    (load_state # "none" /\ fetch_fails # {}) =>
        /\ load_state = "raised"
        /\ load_err = "FetchError"
        /\ loaded = NoItem
        /\ fetch_calls # <<>>
        /\ fetch_calls[Len(fetch_calls)].param \in fetch_fails
        /\ \A k \in 1..(Len(fetch_calls) - 1) : fetch_calls[k].param \notin fetch_fails

C10_Witness ==
    /\ load_state = "raised"
    /\ load_via = "getitem"
    /\ load_err = "FetchError"
    /\ Len(fetch_calls) = 2
    /\ fetch_fails = {2}
    /\ sample.kinds = <<"input_output", "input_output">>

\* the short names of the parameters of sample s whose kind is in K, in the
\* order of the parameter list
NamesOfKinds(s, K) ==
    LET idx == SelectSeq([i \in 1..Len(s.kinds) |-> i], LAMBDA i : s.kinds[i] \in K)
    IN  [k \in DOMAIN idx |-> ShortName(idx[k])]

\* C11: in the Item a load returns, every fetched parameter is one feature
\* under its short name, in parameter order: the input and the input_output
\* parameters in inputs, the output and the input_output parameters in
\* outputs; no fetched array is dropped.
C11_EveryFetchedArrayKept ==
    load_state = "returned" =>
        /\ loaded.inputs.feature_names = NamesOfKinds(sample, {"input", "input_output"})
        /\ loaded.outputs.feature_names = NamesOfKinds(sample, {"output", "input_output"})

\* a step that is a load call on the sample
LoadStep == sample_made /\ load_state' # "none"

C14_ForcingMatchesInputs ==
    (/\ load_state = "returned"
     /\ Len(sample.timestamps.terms) = sample.num_input_steps + sample.num_pred_steps) =>
        /\ dim_size(loaded.forcing, "timestep") = dim_size(loaded.inputs, "timestep")
        /\ dim_size(loaded.forcing, "timestep") = sample.num_input_steps
        /\ dim_size(loaded.forcing, "lat") = dim_size(loaded.inputs, "lat")
        /\ dim_size(loaded.forcing, "lon") = dim_size(loaded.inputs, "lon")

\* C14 amended: in every Item a load returns, the timestep axis of forcing has
\* one entry per output term of the sample, that is len(terms) less
\* num_input_steps (num_pred_steps when the sample has num_input_steps +
\* num_pred_steps terms), and its lat and lon sizes are those of inputs.
C14_ForcingOverOutputTerms ==
    load_state = "returned" =>
        LET L == Len(sample.timestamps.terms)
        IN  /\ dim_size(loaded.forcing, "timestep") =
                   (IF L > sample.num_input_steps THEN L - sample.num_input_steps ELSE 0)
            /\ dim_size(loaded.forcing, "lat") = dim_size(loaded.inputs, "lat")
            /\ dim_size(loaded.forcing, "lon") = dim_size(loaded.inputs, "lon")

C14_Witness ==
    /\ load_state = "returned"
    /\ sample.num_input_steps = 2
    /\ sample.num_pred_steps = 1
    /\ Len(sample.timestamps.terms) = 3
    /\ dim_size(loaded.inputs, "timestep") = 2
    /\ dim_size(loaded.forcing, "timestep") = 1

\* ------------------------------------------------- DummyAccessor claims
\* C13: load calls on different samples are independent under every
\* interleaving: the array a load call was given is the one it gets when it
\* runs alone in the same directory, the one made for its own timestamps,
\* whatever the other load calls did and wrote.
C13_LoadsIndependent ==
    \A p \in Loaders :
        dpc[p] = "done" => dgot[p] = [len |-> dterms[p], by |-> p]

\* ------------------------------------------------------- collate_fn claims
\* the items of the list all have the shapes of the first, field by field
SameShapes(its) ==
    \A i \in DOMAIN its, f \in Range(ItemFields) : its[i][f].shape = its[1][f].shape

\* the items of the list all have the axis names and the feature names of
\* the first, field by field
SameNames(its) ==
    \A i \in DOMAIN its, f \in Range(ItemFields) :
        /\ its[i][f].names = its[1][f].names
        /\ its[i][f].feature_names = its[1][f].feature_names

\* C15: collate_fn on N >= 1 Items of the same shapes, axis names and feature
\* names returns an ItemBatch
\* whose inputs, outputs and forcing have the shape (N,) + shape of the items,
\* a new leading axis named batch before the axis names of the items in their
\* order, the feature names of the items, and item i as element i along batch.
C15_CollationShapeLaw ==
    [][(~item_made /\ items' # <<>> /\ SameShapes(items') /\ SameNames(items')) =>
        /\ item_made'
        /\ item_err' = "none"
        /\ \A f \in Range(ItemFields) :
              /\ item'[f].shape = <<Len(items')>> \o items'[1][f].shape
              /\ item'[f].names = <<"batch">> \o items'[1][f].names
              /\ item'[f].feature_names = items'[1][f].feature_names
              /\ brows'[f] = FieldOf(items', f)]_vars

C15_Witness ==
    /\ item_made
    /\ Len(items) = 2
    /\ SameNames(items)
    /\ item.inputs.names = <<"batch">> \o items[1].inputs.names
    /\ item.inputs.shape = <<2>> \o items[2].inputs.shape
    /\ Len(item.inputs.feature_names) = 2
    /\ brows.outputs = <<items[1].outputs, items[2].outputs>>

\* C16: an ItemBatch exists only if all the items of the list had the same
\* axis names and the same feature names in inputs, outputs and forcing:
\* collate_fn fails on any difference, also between items of equal shapes.
C16_CollateChecksNames ==
    item_made => SameNames(items)

\* C17: at every point in the life of an ItemBatch, what batch_size,
\* num_input_steps and num_pred_steps return is the current size of the batch
\* axis of inputs, of the timestep axis of inputs and of the timestep axis of
\* outputs.
C17_DerivedQuantitiesCurrent ==
    item_made =>
        /\ bcache.batch_size.set =>
              /\ "batch" \in Range(item.inputs.names)
              /\ bcache.batch_size.val = dim_size(item.inputs, "batch")
        /\ bcache.num_input_steps.set =>
              /\ "timestep" \in Range(item.inputs.names)
              /\ bcache.num_input_steps.val = dim_size(item.inputs, "timestep")
        /\ bcache.num_pred_steps.set =>
              /\ "timestep" \in Range(item.outputs.names)
              /\ bcache.num_pred_steps.val = dim_size(item.outputs, "timestep")

\* ----------------------------------------------------------- Period claims
\* C18: for start <= end, date_list is the list of the dates start + k*24h,
\* k = 0, 1, 2, ..., that lie in [start, end]: it begins with start, its
\* elements are 24 hours apart, none is later than end and none is left out.
C18_DateListWithinPeriod ==
    ("date_list" \in pread /\ pargs.start <= pargs.end) =>
        /\ pdates # <<>>
        /\ pdates[1] = pargs.start
        /\ \A k \in 1..(Len(pdates) - 1) : pdates[k + 1] = pdates[k] + 24
        /\ \A k \in DOMAIN pdates : pdates[k] <= pargs.end
        /\ pdates[Len(pdates)] + 24 > pargs.end

\* terms_list is term_start, term_start + step_duration, ... in increasing
\* order, of length floor((term_end - term_start) / step_duration) + 1, with
\* no element greater than term_end
TermsListLaw ==
    /\ Len(pterms) = ((pargs.term_end - pargs.term_start) \div pargs.step_duration) + 1
    /\ \A k \in DOMAIN pterms :
          /\ pterms[k] = pargs.term_start + (k - 1) * pargs.step_duration
          /\ pterms[k] <= pargs.term_end

\* C19 as stated: the law of terms_list for every term_start, term_end and
\* positive step_duration.
C19_TermsListLength ==
    "terms_list" \in pread => TermsListLaw

\* C19 amended: the law of terms_list for every positive step_duration and
\* every term_start, term_end with term_end >= term_start - step_duration.
C19_TermsListLengthOfWindow ==
    ("terms_list" \in pread
        /\ pargs.term_end >= pargs.term_start - pargs.step_duration) => TermsListLaw

C19_Witness ==
    /\ "terms_list" \in pread
    /\ pargs.step_duration = 2
    /\ pargs.term_start = 0
    /\ pargs.term_end = 3
    /\ pterms = <<0, 2>>

\* ------------------------------------------------------ get_datasets claims
\* C21: get_datasets fails with the lookup error, listing the registered
\* names, exactly when the requested name is not a key of the registry; for
\* every registered name the entry is resolved to its dataset class, accessor
\* and configuration and the construction of the datasets goes on.
C21_LookupErrorOnlyIfUnregistered ==
    got.called =>
        /\ (got.err = "DatasetLookupError") <=> (req.name \notin DOMAIN registry)
        /\ got.err = "DatasetLookupError" => got.listed = DOMAIN registry
        /\ req.name \in DOMAIN registry =>
              /\ got.err = "none"
              /\ got.dataset_kls # ""
              /\ got.accessor_kls # ""
              /\ got.config_file =
                    (IF req.config_file = "None"
                     THEN RegistryEntries[req.name][Len(RegistryEntries[req.name])]
                     ELSE req.config_file)

\* ------------------------------------------------------- Sample.load slices
\* C22: in a load call whose fetches all succeed, the fetch function is called
\* once per parameter, in order: over the first num_input_steps timestamps for
\* an input parameter, over the remaining ones for an output parameter, over
\* all of them for an input_output parameter, whose array is then split into
\* its first num_input_steps rows (inputs) and its last num_pred_steps rows
\* (outputs), two slices that do not overlap and together are the whole array
\* (checked on the samples that have num_input_steps + num_pred_steps terms).
C22_FetchOncePerRoleAndSplit ==
    (/\ load_state # "none"
     /\ fetch_fails = {}
     /\ Len(sample.timestamps.terms) = sample.num_input_steps + sample.num_pred_steps) =>
        LET vt == sample.timestamps.validity_times
            n_in == sample.num_input_steps
        IN  /\ Len(fetch_calls) = Len(sample.kinds)
            /\ \A i \in DOMAIN fetch_calls :
                  /\ fetch_calls[i].param = i
                  /\ fetch_calls[i].timestamps.validity_times =
                        CASE sample.kinds[i] = "input" -> Take(vt, n_in)
                          [] sample.kinds[i] = "output" -> Drop(vt, n_in)
                          [] OTHER -> vt
            /\ Len(splits) = Len(NamesOfKinds(sample, {"input_output"}))
            /\ \A k \in DOMAIN splits :
                  /\ sample.kinds[splits[k].param] = "input_output"
                  /\ splits[k].inputs = Take(vt, n_in)
                  /\ Len(splits[k].outputs) = sample.num_pred_steps
                  /\ splits[k].inputs \o splits[k].outputs = vt

\* ----------------------------------------------------- Sample.is_valid claims
\* C23: is_valid returns True exactly when exists answers True for every
\* parameter of the sample (True for an empty list); the parameters are probed
\* in list order, each at most once, and none is probed after the first one
\* for which exists answers False.
C23_IsValidShortCircuits ==
    valid_state # "none" =>
        /\ DOMAIN valid_exists = DOMAIN sample.kinds
        /\ (valid_state = "True") <=> (\A i \in DOMAIN valid_exists : valid_exists[i] = "True")
        /\ Len(valid_probes) <= Len(sample.kinds)
        /\ \A j \in DOMAIN valid_probes : valid_probes[j] = j
        /\ \A j \in 1..(Len(valid_probes) - 1) : valid_exists[j] = "True"
        /\ valid_state = "False" => valid_exists[Len(valid_probes)] = "False"

C23_Witness ==
    /\ valid_state = "False"
    /\ Len(sample.kinds) = 2
    /\ valid_exists = <<"False", "True">>
    /\ valid_probes = <<1>>

\* C24: once a Sample is constructed, no is_valid call and no load call
\* changes any of its fields, and input_timestamps and output_timestamps stay
\* the first num_input_steps entries of timestamps and the remaining ones.
C24_SampleNeverMutated ==
    /\ [][sample' = sample]_vars
    /\ [](sample_made =>
            /\ sample.input_timestamps =
                  Timestamps(Take(sample.timestamps.terms, sample.num_input_steps),
                             Take(sample.timestamps.validity_times, sample.num_input_steps))
            /\ sample.output_timestamps =
                  Timestamps(Drop(sample.timestamps.terms, sample.num_input_steps),
                             Drop(sample.timestamps.validity_times, sample.num_input_steps))
            /\ sample.input_timestamps.terms \o sample.output_timestamps.terms =
                  sample.timestamps.terms)

C24_Witness ==
    /\ valid_state = "True"
    /\ load_state = "returned"
    /\ reloaded
    /\ sample.num_input_steps = 2
    /\ sample.kinds = <<"input_output", "input_output">>
    /\ sample.input_timestamps.validity_times = <<1, 2>>
    /\ sample.output_timestamps.validity_times = <<3>>

\* ---------------------------------------------------- standardization claims
\* C25: the fetch of a parameter in sample.load(no_standardize) returns the
\* values of the whole fetched range, standardized exactly when
\* settings.standardize is on and no_standardize was not requested, whatever
\* the role of the parameter: each value x becomes (x - mean) / std, from which
\* x is recovered as standardized * std + mean when std is not zero, and the
\* values are returned as read when standardization is off.
C25_StandardizedWhenEnabled ==
    fres.by = "load" =>
        /\ fres.err = "none"
        /\ DOMAIN fres.values = DOMAIN fargs.raw
        /\ \A k \in DOMAIN fres.values :
              IF fargs.standardize /\ ~fres.no_standardize
              THEN /\ fres.values[k] = Frac(fargs.raw[k] - fargs.mean, fargs.std)
                   /\ fargs.std # 0 =>
                         destandardized(fres.values[k], fargs.mean, fargs.std)
                             = Frac(fargs.raw[k], 1)
              ELSE fres.values[k] = Frac(fargs.raw[k], 1)

\* --------------------------------------------------- feature counts and names
\* C26: for every Item a sample of a dataset loads, the feature axis of
\* forcing has forcing_dim entries (4 date features, 1 solar feature and one
\* per input parameter) and the feature axes of inputs and of outputs have
\* weather_dim entries (one per input_output parameter), as dataset_info says
\* (checked on the samples that have num_input_steps + num_pred_steps terms
\* and at least one predicted step).
C26_FeatureCountsAsAdvertised ==
    (/\ load_state = "returned"
     /\ sample.num_pred_steps >= 1
     /\ Len(sample.timestamps.terms) = sample.num_input_steps + sample.num_pred_steps) =>
        /\ dim_size(loaded.forcing, "features") = dataset_info(sample.kinds).forcing_dim
        /\ dim_size(loaded.inputs, "features") = dataset_info(sample.kinds).weather_dim
        /\ dim_size(loaded.outputs, "features") = dataset_info(sample.kinds).weather_dim

\* C27: in every Item a load returns, the feature names of inputs and those of
\* outputs are the short names of the input_output parameters in the order of
\* the parameter list; a load on a list that holds an output parameter or no
\* input_output parameter returns no Item.
C27_FeatureNamesOfStateParams ==
    /\ load_state = "returned" =>
          /\ loaded.inputs.feature_names = NamesOfKinds(sample, {"input_output"})
          /\ loaded.outputs.feature_names = NamesOfKinds(sample, {"input_output"})
    /\ (/\ load_state # "none"
        /\ \/ \E i \in DOMAIN sample.kinds : sample.kinds[i] = "output"
           \/ \A i \in DOMAIN sample.kinds : sample.kinds[i] # "input_output") =>
          /\ load_state = "raised"
          /\ loaded = NoItem

C27_Witness ==
    /\ load_state = "returned"
    /\ sample.kinds = <<"input", "input_output">>
    /\ loaded.inputs.feature_names = <<"u10">>
    /\ loaded.outputs.feature_names = <<"u10">>
    /\ fetch_fails = {}
    /\ sample.num_input_steps = 2
    /\ sample.num_pred_steps = 1
    /\ Len(sample.timestamps.terms) = 3

====
